---- MODULE Spec2Model ----
(***************************************************************************)
(* Model of rnote-llm's batch conversion pipeline (src/src/main.rs,        *)
(* src/src/cli.rs): command line options, Job::from_folder driving the     *)
(* DirWalker iterator, and run()'s buffer_unordered / try_collect executor *)
(* over execute_job.                                                       *)
(*                                                                         *)
(* Paths are sequences of components; a component is a sequence of tokens  *)
(* in which "." is the dot character and every other token is a dot-free   *)
(* piece of the name, so "a.note" is <<"a", ".", "note">>.                 *)
(***************************************************************************)
EXTENDS Integers, Sequences, FiniteSets, TLC

VARIABLES
    opts,         \* cli::Options as parsed (fixed during a run)
    max,          \* BufferUnordered.max, the argument of buffer_unordered
    fs0,          \* the file system the program was started on
    fs,           \* file system: [dirs, files, other], sets of absolute paths
    pc,           \* position of run()/main()
    path_stack,   \* DirWalker.path_stack: sequence of ReadDir cursors
    opened,       \* directories handed to std::fs::read_dir so far
    popped,       \* cursors popped while they still had unread entries
    jobs,         \* Vec<Job>: sequence of [input_file, output_file]
    next_job,     \* position of stream::iter(jobs): index of the next job to admit
    in_progress,  \* BufferUnordered.in_progress_queue: set of job indexes
    stage,        \* per job: position of its execute_job future
    calls,        \* per job: collaborator calls made [render, convert, write]
    result,       \* what run() returned: [tag, kind, job], tag "none" before it returns
    exit,         \* [ended, code, logged]: how the process ended
    faults,       \* I/O and collaborator failures injected so far
    failed_at     \* [job, next_job] when the first pipeline failed; job 0 before

vars == << opts, max, fs0, fs, pc, path_stack, opened, popped, jobs, next_job,
           in_progress, stage, calls, result, exit, faults, failed_at >>

----------------------------------------------------------------------------
(* Bounds of the model *)

MaxDepth  == 1     \* largest -m value tried
MaxFaults == 1     \* injected failures per run
MaxWidth  == 2     \* small window widths tried next to the program's own
MaxNameLen == 3    \* tokens of the file names tried for the path mapping

(* buffer_unordered(10) *)
K == 10

----------------------------------------------------------------------------
(* Paths *)

Max(S) == CHOOSE x \in S : \A y \in S : y <= x
Min2(a, b) == IF a <= b THEN a ELSE b

Front(s) == SubSeq(s, 1, Len(s) - 1)
Last(s)  == s[Len(s)]

RootDir == <<"/">>
Cwd     == << RootDir, <<"home">> >>

IsAbsolute(p) == p # <<>> /\ p[1] = RootDir

\* how the OS resolves a path handed to a file system call
Resolve(p) == IF IsAbsolute(p) THEN p ELSE Cwd \o p

\* position of the last "." of a file name, 0 if none
LastDot(name) ==
    LET I == {i \in 1..Len(name) : name[i] = "."}
    IN  IF I = {} THEN 0 ELSE Max(I)

\* Path::file_stem of a final component: the name up to its last dot; the
\* whole name when it has no dot or its only dot comes first
file_stem(name) ==
    IF name = <<".", ".">> THEN name
    ELSE LET d == LastDot(name)
         IN  IF d <= 1 THEN name ELSE SubSeq(name, 1, d - 1)

\* Path::extension: what follows the last dot, <<>> when there is none
extension(name) ==
    IF name = <<".", ".">> THEN <<>>
    ELSE LET d == LastDot(name)
         IN  IF d <= 1 THEN <<>> ELSE SubSeq(name, d + 1, Len(name))

\* variant: the extension is added to the whole file name
add_extension(p, ext) ==
    IF p = <<>> THEN p
    ELSE Front(p) \o << Last(p) \o <<".", ext>> >>

\* PathBuf::set_extension(ext) / Path::with_extension(ext), ext non-empty
set_extension(p, ext) ==
    IF p = <<>> THEN p
    ELSE Front(p) \o << file_stem(Last(p)) \o <<".", ext>> >>

\* Path::parent
parent(p) == Front(p)

\* file.components().skip(n).collect()
skip_components(p, n) == SubSeq(p, n + 1, Len(p))

\* output_folder.join(relative)
join(base, rel) == IF IsAbsolute(rel) THEN rel ELSE base \o rel

IsPrefix(d, p) == Len(d) <= Len(p) /\ SubSeq(p, 1, Len(d)) = d

----------------------------------------------------------------------------
(* File system *)

Exists(f, p) == Resolve(p) \in f.dirs \cup f.files \cup f.other

\* names of the entries of directory d
Entries(f, d) ==
    {Last(p) : p \in {q \in f.dirs \cup f.files \cup f.other :
                         Len(q) = Len(d) + 1 /\ IsPrefix(d, q)}}

\* DirEntry::file_type, which does not follow symlinks
file_type(f, p) ==
    IF p \in f.files THEN "file" ELSE IF p \in f.dirs THEN "dir" ELSE "other"

\* the proper ancestors of p, p included, from the root down
Ancestors(p) == {SubSeq(p, 1, n) : n \in 1..Len(p)}

----------------------------------------------------------------------------
(* Inputs: the command line and the file system the program is started on *)

None == <<>>

SourceFolder == << <<"in">> >>       \* batch source_folder, as typed
DestFolder   == << <<"out">> >>      \* batch destination_folder, as typed
PromptFile   == << <<"prompt">> >>   \* --custom-prompt
SingleFile   == << <<"notes">>, <<"x", ".", "note">> >>
SingleOut    == << <<"y", ".", "md">> >>

In == Cwd \o SourceFolder

\* the largest source tree tried; every tree tried is a part of it
UniFiles == { In \o << <<"a", ".", "note">> >>,
              In \o << <<"a", ".", "txt">> >>,
              In \o << <<"sub">>, <<"b", ".", "note">> >>,
              In \o << <<"sub">>, <<"deep">>, <<"c", ".", "note">> >> }
UniDirs  == { In \o << <<"sub">> >>,
              In \o << <<"sub">>, <<"deep">> >> }
UniOther == { In \o << <<"lnk">> >> }

\* a tree is closed under taking the containing directory
Trees ==
    {t \in [dirs : SUBSET UniDirs, files : SUBSET UniFiles, other : SUBSET UniOther] :
        \A p \in t.dirs \cup t.files \cup t.other :
            parent(p) = In \/ parent(p) \in t.dirs}

BaseDirs == { <<RootDir>>, Cwd }

\* window widths tried: the program's own and small ones that bind on few jobs
Widths == (1..MaxWidth) \cup {K}

NoTree == [dirs |-> {}, files |-> {}, other |-> {}]

\* the prompt option and whether its file is there
PromptCases == { [custom |-> None, there |-> FALSE],
                 [custom |-> PromptFile, there |-> TRUE],
                 [custom |-> PromptFile, there |-> FALSE] }

PromptFiles(pr) == IF pr.there THEN {Cwd \o PromptFile} ELSE {}

\* the source folder is missing, or holds one of the trees
SourceCases == {[there |-> FALSE, tree |-> NoTree]} \cup
               {[there |-> TRUE, tree |-> t] : t \in Trees}

BatchInputs ==
    {[o |-> [command |-> "Batch", max_depth |-> d, skip_existing |-> s,
             custom_prompt |-> pr.custom],
      w |-> w,
      f |-> [dirs  |-> BaseDirs \cup (IF src.there THEN {In} ELSE {}) \cup src.tree.dirs
                                \cup (IF dst THEN {Cwd \o DestFolder} ELSE {}),
             files |-> src.tree.files \cup PromptFiles(pr),
             other |-> src.tree.other]] :
        d \in 0..MaxDepth, s \in BOOLEAN, pr \in PromptCases, w \in Widths,
        src \in SourceCases, dst \in BOOLEAN}

SingleInputs ==
    {[o |-> [command |-> "Single", file |-> SingleFile, output_file |-> out,
             skip_existing |-> s, custom_prompt |-> pr.custom],
      w |-> w,
      f |-> [dirs  |-> BaseDirs \cup {Cwd \o parent(SingleFile)},
             files |-> {Cwd \o SingleFile} \cup pre \cup PromptFiles(pr),
             other |-> {}]] :
        out \in {None, SingleOut}, s \in BOOLEAN, pr \in PromptCases, w \in Widths,
        pre \in SUBSET {Cwd \o SingleOut, Cwd \o set_extension(SingleFile, "md")}}

NoResult  == [tag |-> "none", kind |-> "", job |-> 0]
Running   == [ended |-> FALSE, code |-> 0, logged |-> FALSE]
NoFailure == [job |-> 0, next_job |-> 0]

----------------------------------------------------------------------------
(* Further batch inputs: file names of every shape, and source trees whose
   outputs meet each other or what is already in the destination folder *)

NameTokens == {"a", ".", "md"}

\* file names of up to MaxNameLen tokens; "." and ".." are no entries of a
\* directory, and two pieces without a dot between them are one piece
Names ==
    {n \in UNION {[1..l -> NameTokens] : l \in 1..MaxNameLen} :
        /\ n # <<".">> /\ n # <<".", ".">>
        /\ \A k \in 1..(Len(n) - 1) : n[k] = "." \/ n[k + 1] = "."}

\* one file, in the source root or one level down
NameTrees ==
    {[dirs |-> {}, files |-> {In \o <<n>>}, other |-> {}] : n \in Names} \cup
    {[dirs |-> {In \o << <<"sub">> >>}, files |-> {In \o << <<"sub">>, n >>},
      other |-> {}] : n \in Names}

\* a.note and a.txt next to a directory named a.md
ClashFiles == { In \o << <<"a", ".", "note">> >>,
                In \o << <<"a", ".", "txt">> >>,
                In \o << <<"a", ".", "md">>, <<"d", ".", "note">> >> }
ClashDirs  == { In \o << <<"a", ".", "md">> >> }

ClashTrees ==
    {t \in [dirs : SUBSET ClashDirs, files : SUBSET ClashFiles, other : {{}}] :
        \A p \in t.files : parent(p) = In \/ parent(p) \in t.dirs}

\* the destination folder is missing, or is there with an a.md left in it
OldOutput == [dirs  |-> {Cwd \o DestFolder},
              files |-> {Cwd \o DestFolder \o << <<"a", ".", "md">> >>}]
NoOutput  == [dirs |-> {}, files |-> {}]

NameInputs ==
    {[o |-> [command |-> "Batch", max_depth |-> d, skip_existing |-> s,
             custom_prompt |-> None],
      w |-> w,
      f |-> [dirs  |-> BaseDirs \cup {In} \cup t.dirs \cup dst.dirs,
             files |-> t.files \cup dst.files,
             other |-> t.other]] :
        d \in 0..MaxDepth, s \in BOOLEAN, w \in Widths,
        t \in NameTrees \cup ClashTrees, dst \in {NoOutput, OldOutput}}

Start(inputs) ==
    /\ \E i \in inputs : opts = i.o /\ max = i.w /\ fs = i.f /\ fs0 = i.f
    /\ pc = "start"
    /\ path_stack = <<>>
    /\ opened = {}
    /\ popped = {}
    /\ jobs = <<>>
    /\ next_job = 1
    /\ in_progress = {}
    /\ stage = <<>>
    /\ calls = <<>>
    /\ result = NoResult
    /\ exit = Running
    /\ faults = 0
    /\ failed_at = NoFailure

Init == Start(BatchInputs \cup SingleInputs)

InitNames == Start(NameInputs)

CanFault == faults < MaxFaults

\* run() returns: everything it owns is dropped, main sees the result
Return(r) == pc' = "returned" /\ result' = r
Ok == [tag |-> "ok", kind |-> "", job |-> 0]
Err(kind) == [tag |-> "err", kind |-> kind, job |-> 0]
JobErr(i) == [tag |-> "err", kind |-> "job", job |-> i]

----------------------------------------------------------------------------
(* File system calls: each gives [ok, fs], the outcome and the file system
   it leaves *)

\* variant: an existing directory is accepted, as create_dir_all does
create_dir_lenient(f, p) ==
    IF Resolve(p) \in f.files \cup f.other \/ Resolve(parent(p)) \notin f.dirs
    THEN [ok |-> FALSE, fs |-> f]
    ELSE [ok |-> TRUE, fs |-> [f EXCEPT !.dirs = @ \cup {Resolve(p)}]]

\* std::fs::create_dir: the directory must be new and its parent a directory
create_dir(f, p) ==
    IF Exists(f, p) \/ Resolve(parent(p)) \notin f.dirs
    THEN [ok |-> FALSE, fs |-> f]
    ELSE [ok |-> TRUE, fs |-> [f EXCEPT !.dirs = @ \cup {Resolve(p)}]]

\* Path::canonicalize: the absolute form of an existing path
canonicalize(f, p) ==
    IF Exists(f, p) THEN [ok |-> TRUE, path |-> Resolve(p)]
    ELSE [ok |-> FALSE, path |-> p]

\* std::fs::read_dir: a cursor over the entries of a directory
read_dir(f, p) ==
    IF Resolve(p) \in f.dirs
    THEN [ok |-> TRUE, cursor |-> [dir |-> p, rest |-> Entries(f, Resolve(p))]]
    ELSE [ok |-> FALSE, cursor |-> [dir |-> p, rest |-> {}]]

----------------------------------------------------------------------------
(* run(), up to the job list *)

Panic == pc' = "exited" /\ exit' = [ended |-> TRUE, code |-> 101, logged |-> FALSE]

\* cmdline.prompt()? and Gemini::with_model(..)?
RunStart ==
    /\ pc = "start"
    /\ \E fault \in {"none"} \cup (IF CanFault THEN {"prompt", "client"} ELSE {}) :
          /\ faults' = IF fault = "none" THEN faults ELSE faults + 1
          /\ IF opts.custom_prompt # None
                /\ (fault = "prompt" \/ Resolve(opts.custom_prompt) \notin fs.files)
             THEN Return(Err("prompt"))
             ELSE IF fault = "client"
             THEN Return(Err("client"))
             ELSE fault = "none" /\ pc' = "command" /\ UNCHANGED result
    /\ UNCHANGED << opts, max, fs0, fs, path_stack, opened, popped, jobs, next_job,
                    in_progress, stage, calls, exit, failed_at >>

\* variant: every subdirectory is opened
DescendAlways(len, max_depth) == TRUE

\* variant: the bound compared one level too deep
DescendOneDeeper(len, max_depth) == len <= max_depth + 1

\* the guard under which DirWalker::next opens a subdirectory
Descend(len, max_depth) == len <= max_depth

\* the output file Job::from_folder gives a file the walker yielded
Destination(input_folder, output_folder, file) ==
    LET start_components == Len(input_folder)
        relative_file    == skip_components(file, start_components)
    IN  set_extension(join(output_folder, relative_file), "md")

NoCalls == [render |-> 0, convert |-> 0, write |-> 0]

NewJob(input, output) == [input_file |-> input, output_file |-> output]

\* Job::from_folder from its entry to the first read of the walker
FromFolder ==
    /\ pc = "command" /\ opts.command = "Batch"
    /\ \E fault \in {"none"} \cup (IF CanFault THEN {"create_dir", "canonicalize", "read_dir"} ELSE {}) :
          LET made == create_dir(fs, DestFolder)
              inp  == canonicalize(made.fs, SourceFolder)
              out  == canonicalize(made.fs, DestFolder)
              rd   == read_dir(made.fs, inp.path)
          IN  /\ faults' = IF fault = "none" THEN faults ELSE faults + 1
              /\ IF fault = "create_dir" \/ ~made.ok
                 THEN /\ Return(Err("create_dir"))
                      /\ UNCHANGED << fs, path_stack, opened >>
                 ELSE IF fault = "canonicalize" \/ ~inp.ok \/ ~out.ok
                 THEN /\ Return(Err("canonicalize"))
                      /\ fs' = made.fs
                      /\ UNCHANGED << path_stack, opened >>
                 ELSE IF fault = "read_dir" \/ ~rd.ok
                 THEN /\ Return(Err("read_dir"))
                      /\ fs' = made.fs
                      /\ UNCHANGED << path_stack, opened >>
                 ELSE /\ pc' = "walk"
                      /\ fs' = made.fs
                      /\ path_stack' = << rd.cursor >>
                      /\ opened' = opened \cup {inp.path}
                      /\ UNCHANGED result
    /\ UNCHANGED << opts, max, fs0, popped, jobs, next_job, in_progress, stage, calls,
                    exit, failed_at >>

\* variant: the cursor gives the entry it gave before
AdvanceNot(cursor, name) == cursor

\* explore.next(): the cursor has given the entry and moves past it
Advance(cursor, name) == [cursor EXCEPT !.rest = @ \ {name}]

\* variant: the cursor stays on the stack
PopNothing(stack) == stack

Pop(stack) == Front(stack)

\* variant: the new cursor goes under the one being read
PushUnder(stack, readdir) == Front(stack) \o << readdir, Last(stack) >>

\* self.path_stack.push(readdir)
Push(stack, readdir) == Append(stack, readdir)

\* one execution of the body of DirWalker::next; its tail call self.next()
\* is the next execution.  A yielded path is consumed by the for loop of
\* Job::from_folder, which appends the job; the end of the sequence makes
\* from_folder return the job list.
DirWalkerNext ==
    /\ pc = "walk"
    /\ IF path_stack = <<>>
       THEN /\ pc' = "buffer"
            /\ UNCHANGED << path_stack, opened, popped, jobs, stage, calls, faults, exit >>
       ELSE LET len     == Len(path_stack)
                explore == path_stack[len]
                advance(name) == [path_stack EXCEPT ![len] = Advance(@, name)]
            IN  \/ \* explore.next() = Some(Ok(file))
                   \E name \in explore.rest :
                      LET file == explore.dir \o <<name>>
                          ft   == file_type(fs, file)
                      IN  IF ft = "file"
                          THEN /\ jobs' = Append(jobs,
                                      NewJob(file, Destination(In, Resolve(DestFolder), file)))
                               /\ stage' = Append(stage, "Pending")
                               /\ calls' = Append(calls, NoCalls)
                               /\ path_stack' = advance(name)
                               /\ UNCHANGED << pc, opened, popped, faults, exit >>
                          ELSE IF ft = "dir" /\ Descend(len, opts.max_depth)
                          THEN \/ /\ read_dir(fs, file).ok
                                  /\ path_stack' = Push(advance(name), read_dir(fs, file).cursor)
                                  /\ opened' = opened \cup {file}
                                  /\ UNCHANGED << pc, popped, jobs, stage, calls, faults, exit >>
                               \/ \* read_dir(..).unwrap() on an error
                                  /\ CanFault /\ faults' = faults + 1
                                  /\ Panic
                                  /\ UNCHANGED << path_stack, opened, popped, jobs, stage, calls >>
                          ELSE /\ path_stack' = Pop(path_stack)
                               /\ popped' = IF explore.rest \ {name} # {}
                                            THEN popped \cup {explore.dir} ELSE popped
                               /\ UNCHANGED << pc, opened, jobs, stage, calls, faults, exit >>
                \/ \* file.file_type().unwrap() on an error
                   /\ explore.rest # {} /\ CanFault /\ faults' = faults + 1
                   /\ Panic
                   /\ UNCHANGED << path_stack, opened, popped, jobs, stage, calls >>
                \/ \* explore.next() = Some(Err(_))
                   /\ CanFault /\ faults' = faults + 1
                   /\ path_stack' = Pop(path_stack)
                   /\ popped' = IF explore.rest # {} THEN popped \cup {explore.dir} ELSE popped
                   /\ UNCHANGED << pc, opened, jobs, stage, calls, exit >>
                \/ \* explore.next() = None
                   /\ explore.rest = {}
                   /\ path_stack' = Pop(path_stack)
                   /\ UNCHANGED << pc, opened, popped, jobs, stage, calls, faults, exit >>
    /\ UNCHANGED << opts, max, fs0, fs, next_job, in_progress, result, failed_at >>

\* Command::Single: one job, output defaulting to the file with extension md
Single ==
    /\ pc = "command" /\ opts.command = "Single"
    /\ LET output_file == IF opts.output_file = None
                          THEN set_extension(opts.file, "md")
                          ELSE opts.output_file
       IN  jobs' = << NewJob(opts.file, output_file) >>
    /\ stage' = << "Pending" >>
    /\ calls' = << NoCalls >>
    /\ pc' = "buffer"
    /\ UNCHANGED << opts, max, fs0, fs, path_stack, opened, popped, next_job, in_progress,
                    result, exit, faults, failed_at >>

----------------------------------------------------------------------------
(* execute_job: one future per job, advanced from one await to the next.
   A tokio::fs call takes effect when the future is resumed with its result. *)

\* tokio::fs::try_exists
try_exists(f, p) == Exists(f, p)

\* tokio::fs::create_dir_all: every missing ancestor is made; an ancestor
\* that is not a directory makes it fail.  The empty path is a success.
create_dir_all(f, p) ==
    LET anc == Ancestors(Resolve(p))
    IN  IF p # <<>> /\ \E a \in anc : a \in f.files \cup f.other
        THEN [ok |-> FALSE, fs |-> f]
        ELSE [ok |-> TRUE, fs |-> [f EXCEPT !.dirs = @ \cup anc]]

\* tokio::fs::write: creates or truncates the file in an existing directory
write(f, p) ==
    IF Resolve(p) \in f.dirs \cup f.other \/ Resolve(parent(p)) \notin f.dirs
    THEN [ok |-> FALSE, fs |-> f]
    ELSE [ok |-> TRUE, fs |-> [f EXCEPT !.files = @ \cup {Resolve(p)}]]

Terminal == {"Skipped", "Succeeded", "Failed"}
InFlight == {"Admitted", "Checking", "Rendering", "Converting",
             "PersistingDir", "PersistingWrite"}

Out(s, c, g, flt, d) == [stage |-> s, calls |-> c, fs |-> g, fault |-> flt, done |-> d]

\* export_rnote_file is entered: the render collaborator is called
StartRender(cl, f) == Out("Rendering", [cl EXCEPT !.render = @ + 1], f, FALSE, "no")

\* variant: the answer of try_exists is not looked at
CheckedIgnored(exists, cl, f) == StartRender(cl, f)

\* try_exists has answered: an existing output ends the job as skipped
Checked(exists, cl, f) ==
    IF exists THEN Out("Skipped", cl, f, FALSE, "ok") ELSE StartRender(cl, f)

\* variant: the image goes to the output without the conversion
RenderedSkipsConvert(cl, f) == Out("PersistingDir", cl, f, FALSE, "no")

\* export_rnote_file has returned the image: convert_note is called with it
Rendered(cl, f) == Out("Converting", [cl EXCEPT !.convert = @ + 1], f, FALSE, "no")

\* what resuming the future of a job can lead to:
\* [stage, calls, fs, fault, done], done being "no" while the future is
\* pending again, "ok"/"err" for the value it returns, "panic" for an unwrap
Resume(job, st, cl, f, skip_existing) ==
    LET fail    == Out("Failed", cl, f, FALSE, "err")
        faulted == Out("Failed", cl, f, TRUE, "err")
    IN  CASE st = "Admitted" ->
               IF skip_existing THEN {Out("Checking", cl, f, FALSE, "no")}
               ELSE {StartRender(cl, f)}
          [] st = "Checking" ->
               {Checked(try_exists(f, job.output_file), cl, f), faulted}
          [] st = "Rendering" ->
               IF Resolve(job.input_file) \notin f.files THEN {fail}
               ELSE {Rendered(cl, f),
                     faulted,
                     Out("Rendering", cl, f, TRUE, "panic")}
          [] st = "Converting" ->
               {Out("PersistingDir", cl, f, FALSE, "no"), faulted}
          [] st = "PersistingDir" ->
               LET made == create_dir_all(f, parent(job.output_file))
               IN  {IF made.ok THEN Out("PersistingWrite", cl, made.fs, FALSE, "no") ELSE fail,
                    faulted}
          [] st = "PersistingWrite" ->
               LET wr == write(f, job.output_file)
               IN  {IF wr.ok
                    THEN Out("Succeeded", [cl EXCEPT !.write = @ + 1], wr.fs, FALSE, "ok")
                    ELSE fail,
                    faulted}
          [] OTHER -> {}

----------------------------------------------------------------------------
(* run(): stream::iter(jobs).map(execute_job).buffer_unordered(K).try_collect() *)

\* variant: the last item of the stream is never taken
AdmittedButLast(limit, queue, nxt, n) ==
    LET room == limit - Cardinality(queue)
        left == n - nxt
    IN  Min2(IF room > 0 THEN room ELSE 0, IF left > 0 THEN left ELSE 0)

\* variant: the loop runs while the queue holds at most max futures
AdmittedOneMore(limit, queue, nxt, n) ==
    LET room == limit + 1 - Cardinality(queue)
        left == n - nxt + 1
    IN  Min2(IF room > 0 THEN room ELSE 0, left)

\* BufferUnordered::poll_next, first loop: futures are taken from the stream
\* while the queue holds fewer than max of them
Admitted(limit, queue, nxt, n) ==
    LET room == limit - Cardinality(queue)
        left == n - nxt + 1
    IN  Min2(IF room > 0 THEN room ELSE 0, left)

\* variant: errors are looked at only when the stream has ended
collect_then_check(item_ok, stream_done) ==
    IF stream_done THEN (IF item_ok THEN "ok" ELSE "err") ELSE "more"

\* TryCollect::poll on what the stream gave: an Err ends the collection at
\* once, the end of the stream ends it with Ok
try_collect(item_ok, stream_done) ==
    IF ~item_ok THEN "err" ELSE IF stream_done THEN "ok" ELSE "more"

\* variant: the job list is consumed from its end
StreamItemFromBack(k, n) == n + 1 - k

\* stream::iter(jobs): the k-th item of the stream is the k-th of the n jobs
StreamItem(k, n) == k

Fill(queue, nxt) ==
    LET k     == Admitted(max, queue, nxt, Len(jobs))
        taken == {StreamItem(j, Len(jobs)) : j \in nxt..(nxt + k - 1)}
    IN  [queue |-> queue \cup taken, next |-> nxt + k, taken |-> taken]

\* BufferUnordered::poll_next, its end: the queue is empty and the stream done
StreamDone(filled) == filled.queue = {} /\ filled.next > Len(jobs)

AdmitStage(st, taken) ==
    [i \in 1..Len(st) |-> IF i \in taken THEN "Admitted" ELSE st[i]]

\* the first poll of the collection: the window is filled
Buffer ==
    /\ pc = "buffer"
    /\ LET filled == Fill({}, 1)
       IN  /\ in_progress' = filled.queue
           /\ next_job' = filled.next
           /\ stage' = AdmitStage(stage, filled.taken)
           /\ IF try_collect(TRUE, StreamDone(filled)) = "ok"
              THEN Return(Ok)
              ELSE pc' = "collect" /\ UNCHANGED result
    /\ UNCHANGED << opts, max, fs0, fs, path_stack, opened, popped, jobs, calls, exit,
                    faults, failed_at >>

\* the future of job i is polled
ExecuteJob(i) ==
    /\ pc = "collect"
    /\ i \in in_progress
    /\ \E r \in Resume(jobs[i], stage[i], calls[i], fs, opts.skip_existing) :
          /\ r.fault => CanFault
          /\ faults' = IF r.fault THEN faults + 1 ELSE faults
          /\ fs' = r.fs
          /\ calls' = [calls EXCEPT ![i] = r.calls]
          /\ CASE r.done = "no" ->
                    /\ stage' = [stage EXCEPT ![i] = r.stage]
                    /\ UNCHANGED << pc, in_progress, next_job, result, exit, failed_at >>
               [] r.done = "panic" ->
                    /\ Panic
                    /\ UNCHANGED << stage, in_progress, next_job, result, failed_at >>
               [] OTHER ->
                    LET filled  == Fill(in_progress \ {i}, next_job)
                        verdict == try_collect(r.done = "ok", StreamDone(filled))
                    IN  /\ failed_at' = IF r.done = "err" /\ failed_at = NoFailure
                                        THEN [job |-> i, next_job |-> next_job]
                                        ELSE failed_at
                        /\ IF verdict = "err"
                           THEN /\ Return(JobErr(i))
                                /\ stage' = [stage EXCEPT ![i] = r.stage]
                                /\ UNCHANGED << in_progress, next_job >>
                           ELSE /\ in_progress' = filled.queue
                                /\ next_job' = filled.next
                                /\ stage' = AdmitStage([stage EXCEPT ![i] = r.stage],
                                                       filled.taken)
                                /\ IF verdict = "ok"
                                   THEN Return(Ok)
                                   ELSE UNCHANGED << pc, result >>
                        /\ UNCHANGED exit
    /\ UNCHANGED << opts, max, fs0, path_stack, opened, popped, jobs >>

\* main(): an Err is logged; main returns
Main ==
    /\ pc = "returned"
    /\ pc' = "exited"
    /\ exit' = [ended |-> TRUE, code |-> 0, logged |-> result.tag = "err"]
    /\ UNCHANGED << opts, max, fs0, fs, path_stack, opened, popped, jobs, next_job,
                    in_progress, stage, calls, result, faults, failed_at >>

Next ==
    \/ RunStart
    \/ FromFolder
    \/ DirWalkerNext
    \/ Single
    \/ Buffer
    \/ \E i \in 1..Len(jobs) : ExecuteJob(i)
    \/ Main

Spec == Init /\ [][Next]_vars

\* batch runs only
NextBatch ==
    \/ RunStart
    \/ FromFolder
    \/ DirWalkerNext
    \/ Buffer
    \/ \E i \in 1..Len(jobs) : ExecuteJob(i)
    \/ Main

SpecNames == InitNames /\ [][NextBatch]_vars

\* the current_thread runtime keeps polling run() while something can move,
\* and every call awaited eventually returns
\* (runs without --custom-prompt: the option plays no part once run is past it)
InitFair == Init /\ opts.custom_prompt = None
FairSpec == InitFair /\ [][Next]_vars /\ WF_vars(Next)

----------------------------------------------------------------------------
(* Properties *)

Batch   == opts.command = "Batch"
JobIds  == 1..Len(jobs)
Inputs  == {jobs[i].input_file : i \in JobIds}
Outputs == {jobs[i].output_file : i \in JobIds}

\* directory levels between the source root and a file below it
Depth(file) == Len(file) - Len(In) - 1

\* the regular files of the source tree at most max_depth levels down
FilesWithin(d) == {p \in fs0.files : IsPrefix(In, p) /\ Depth(p) <= d}

Planned == Batch /\ pc \in {"buffer", "collect"}

\* C1: once Job::from_folder has returned the job list of a walk without
\* I/O errors, the jobs are exactly the regular files at most max_depth
\* levels below the source root, one job each.
C1_OneJobPerFile ==
    (Planned /\ faults = 0) =>
        /\ Inputs = FilesWithin(opts.max_depth)
        /\ Len(jobs) = Cardinality(FilesWithin(opts.max_depth))

\* C2: every path the walker has yielded is a regular file at most
\* max_depth directory levels below the walked root.
C2_YieldedWithinDepth ==
    Batch => \A i \in JobIds :
                /\ jobs[i].input_file \in fs0.files
                /\ IsPrefix(In, jobs[i].input_file)
                /\ Depth(jobs[i].input_file) <= opts.max_depth

\* a file as deep as the bound allows was yielded from a subdirectory
C2_Witness ==
    /\ Batch /\ opts.max_depth >= 1
    /\ \E i \in JobIds : Depth(jobs[i].input_file) = opts.max_depth
    /\ \E p \in fs0.files : IsPrefix(In, p) /\ Depth(p) > opts.max_depth

\* C3: distinct source files of one planned batch have distinct output files.
C3_Injective ==
    Batch => \A i, j \in JobIds :
                jobs[i].input_file # jobs[j].input_file
                    => jobs[i].output_file # jobs[j].output_file

NonTerminal == {i \in JobIds : stage[i] \in InFlight}

\* C4: the pipelines admitted and not yet at a terminal state are never more
\* than the width of the window.
C4_WindowBound == Cardinality(NonTerminal) <= max

\* the window is full while a planned job still waits for admission
C4_Witness ==
    /\ pc = "collect"
    /\ Cardinality(NonTerminal) = max
    /\ next_job <= Len(jobs)
    /\ \E i \in JobIds : stage[i] \in {"Rendering", "Converting", "PersistingDir"}

\* C5: once a pipeline has completed with a failure, run has returned the
\* error of that first failing pipeline, and no job that was not admitted by
\* then has been started.
C5_FailFast ==
    failed_at.job # 0 =>
        /\ result = JobErr(failed_at.job)
        /\ next_job = failed_at.next_job
        /\ \A i \in JobIds : i >= failed_at.next_job => stage[i] = "Pending"
        /\ \A i \in JobIds : stage[i] = "Failed" => i = failed_at.job

\* a pipeline failed while a later job was still waiting; the process ended
C5_Witness ==
    /\ failed_at.job # 0
    /\ failed_at.next_job <= Len(jobs)
    /\ \E i \in JobIds : stage[i] = "Succeeded"
    /\ exit.ended

AllTerminal == \A i \in JobIds : stage[i] \in Terminal
AllDone     == \A i \in JobIds : stage[i] \in {"Skipped", "Succeeded"}

\* C6: a process that has ended after run returned an error has logged it
\* and has a non-zero exit status; an exit status of zero means run returned
\* Ok with every job at a terminal state.
C6_ExitStatus ==
    exit.ended =>
        /\ result.tag = "err" => (exit.logged /\ exit.code # 0)
        /\ exit.code = 0 => (result = Ok /\ AllTerminal)

\* C7: with skip_existing, a job whose output exists when try_exists answers
\* ends Skipped and successful, with no render call, no convert call and no
\* write, and the file system as it was; a skipped job stays as it is.
C7_SkipDoesNothing ==
    [][\A i \in JobIds :
          /\ ( /\ opts.skip_existing
               /\ stage[i] = "Checking" /\ stage'[i] # "Checking"
               /\ try_exists(fs, jobs[i].output_file)
               /\ faults' = faults )
             => ( /\ stage'[i] = "Skipped"
                  /\ calls'[i] = NoCalls
                  /\ fs' = fs
                  /\ i \notin in_progress'
                  /\ result'.tag # "err" )
          /\ stage[i] = "Skipped" => (stage'[i] = "Skipped" /\ calls'[i] = NoCalls)
      ]_vars

\* a job was skipped over an output that exists
C7_Witness ==
    /\ opts.skip_existing
    /\ \E i \in JobIds : /\ stage[i] = "Skipped"
                         /\ calls[i] = NoCalls
                         /\ Exists(fs, jobs[i].output_file)

\* C8: in a batch run started with the destination folder present, from_folder
\* returns the create_dir error, there are no jobs, no directory is ever
\* opened for reading and the file system stays as it was.
C8_DestinationExists ==
    (Batch /\ Exists(fs0, DestFolder)) =>
        /\ jobs = <<>>
        /\ opened = {}
        /\ fs = fs0
        /\ result.tag # "ok"
        /\ pc \notin {"walk", "buffer", "collect"}
        /\ (result.tag = "err" /\ faults = 0 /\ result.kind # "prompt")
              => result = Err("create_dir")

\* from_folder has returned the error of create_dir on an existing destination
C8_Witness ==
    /\ Batch /\ Exists(fs0, DestFolder)
    /\ Exists(fs0, SourceFolder) /\ FilesWithin(opts.max_depth) # {}
    /\ faults = 0
    /\ result = Err("create_dir")
    /\ exit.ended

\* C9: a step of the walk in which opening or reading a directory gives an
\* I/O error ends the walk: run returns the error or the process dies.
C9_WalkErrorFatal ==
    [][(pc \in {"command", "walk"} /\ faults' = faults + 1)
          => pc' \in {"returned", "exited"}]_vars

\* C10: run returns Ok only with every job Skipped or Succeeded; and when no
\* pipeline fails or panics, a planned job list leads to run returning Ok
\* with every job admitted and Skipped or Succeeded.
C10_AllJobsFinish ==
    /\ [](result = Ok => AllDone)
    /\ ([](exit.code # 101 /\ \A i \in JobIds : stage[i] # "Failed")
           => [](pc = "buffer" => <>(result = Ok /\ AllDone /\ next_job = Len(jobs) + 1)))

\* run returned Ok on more jobs than the window holds, skipped ones included
C10_Witness ==
    /\ result = Ok /\ exit.ended
    /\ Len(jobs) > max
    /\ AllDone
    /\ \E i \in JobIds : stage[i] = "Succeeded"

\* C11: admission follows the job list: a job has left Pending only when
\* every job before it has, so each admission takes the lowest pending job;
\* and while a job waits, the window is full.
C11_FifoAdmission ==
    /\ \A i, j \in JobIds : (j < i /\ stage[i] # "Pending") => stage[j] # "Pending"
    /\ (pc = "collect" /\ \E i \in JobIds : stage[i] = "Pending")
          => Cardinality(in_progress) = max

\* a later job finished while an earlier one is still in flight, and its
\* place in the full window went to the next job of the list
C11_Witness ==
    /\ pc = "collect"
    /\ next_job > max + 1
    /\ \E i, j, k \in JobIds : /\ i < j /\ j < k
                               /\ stage[i] \in InFlight
                               /\ stage[j] \in Terminal
                               /\ stage[k] \in InFlight

\* the stage a future can be at right after each stage
StageSteps ==
    { <<"Pending", "Admitted">>,
      <<"Admitted", "Checking">>, <<"Admitted", "Rendering">>,
      <<"Checking", "Skipped">>, <<"Checking", "Rendering">>, <<"Checking", "Failed">>,
      <<"Rendering", "Converting">>, <<"Rendering", "Failed">>,
      <<"Converting", "PersistingDir">>, <<"Converting", "Failed">>,
      <<"PersistingDir", "PersistingWrite">>, <<"PersistingDir", "Failed">>,
      <<"PersistingWrite", "Succeeded">>, <<"PersistingWrite", "Failed">> }

\* C12: a job moves through its stages in the one order check, render,
\* convert, create directories, write, entering each at most once; render
\* and convert are each called at most once; the output is written only from
\* the write stage, after render and convert were called and have returned;
\* and a terminal stage is never left.
C12_StagesInOrder ==
    [][\A i \in JobIds :
          /\ i \in DOMAIN stage' /\ jobs'[i] = jobs[i]
          /\ stage'[i] # stage[i] => << stage[i], stage'[i] >> \in StageSteps
          /\ calls'[i].render <= 1 /\ calls'[i].convert <= 1 /\ calls'[i].write <= 1
          /\ calls'[i].render > calls[i].render => stage'[i] = "Rendering"
          /\ calls'[i].convert > calls[i].convert
                => (stage[i] = "Rendering" /\ stage'[i] = "Converting")
          /\ calls'[i].write > calls[i].write
                => ( /\ stage[i] = "PersistingWrite" /\ stage'[i] = "Succeeded"
                     /\ calls[i].render = 1 /\ calls[i].convert = 1 )
          /\ stage'[i] = "Succeeded" => calls'[i] = [render |-> 1, convert |-> 1, write |-> 1]
          /\ (fs' # fs /\ stage'[i] # stage[i] /\ stage[i] # "Pending")
                => (stage[i] \in {"PersistingDir", "PersistingWrite"} /\ calls[i].convert = 1)
      ]_vars

\* a job went through every stage, the check included, and wrote its output
C12_Witness ==
    /\ opts.skip_existing
    /\ \E i \in JobIds : /\ stage[i] = "Succeeded"
                         /\ calls[i] = [render |-> 1, convert |-> 1, write |-> 1]
                         /\ Resolve(jobs[i].output_file) \in fs.files \ fs0.files

\* the file name an output name came from, given the extension the source
\* name had: the md extension is taken off and that extension put back
Restore(out, orig) ==
    IF orig # <<".", ".">> /\ LastDot(orig) > 1
    THEN file_stem(out) \o <<".">> \o extension(orig)
    ELSE file_stem(out)

\* C13: the output file of every job lies under the destination root at the
\* place its input has under the source root: the directories in between are
\* the same, the output name has extension md, and putting the extension of
\* the input back on the output name gives the input name.
C13_MirroredPath ==
    Batch => \A i \in JobIds :
        LET root == Resolve(DestFolder)
            rel  == skip_components(jobs[i].input_file, Len(In))
            back == skip_components(jobs[i].output_file, Len(root))
        IN  /\ IsPrefix(In, jobs[i].input_file)
            /\ IsPrefix(root, jobs[i].output_file)
            /\ rel # <<>> /\ Len(back) = Len(rel)
            /\ Front(back) = Front(rel)
            /\ extension(Last(back)) = <<"md">>
            /\ Restore(Last(back), Last(rel)) = Last(rel)

\* a file one level down whose name has dots before its extension was planned
C13_Witness ==
    /\ Batch
    /\ \E i \in JobIds :
          /\ Len(jobs[i].input_file) = Len(In) + 2
          /\ Len(Last(jobs[i].input_file)) = 3
          /\ LastDot(Last(jobs[i].input_file)) = 2
          /\ Last(jobs[i].input_file)[1] = "."

\* C14: when no I/O error occurs, a cursor is popped only once it has no
\* unread entry left: an entry that is a directory beyond the depth bound,
\* or neither a file nor a directory, costs the walk that entry alone.
C14_SkipOnlyEntry == (Batch /\ faults = 0) => popped = {}

\* C15: the k-th cursor of the stack reads a directory k - 1 levels below
\* the source root, each one inside the one before it, and the stack never
\* holds more than max_depth + 1 cursors; with max_depth 0 only the root is
\* ever opened and only files directly in it are yielded.
C15_StackIsDepth ==
    Batch =>
        /\ \A k \in 1..Len(path_stack) :
              /\ Len(path_stack[k].dir) - Len(In) = k - 1
              /\ k > 1 => parent(path_stack[k].dir) = path_stack[k - 1].dir
        /\ Len(path_stack) <= opts.max_depth + 1
        /\ \A d \in opened : Len(d) - Len(In) <= opts.max_depth
        /\ opts.max_depth = 0 =>
              /\ opened \subseteq {In}
              /\ \A i \in JobIds : parent(jobs[i].input_file) = In

\* with max_depth 0, the walk of a root holding a subdirectory with a file
\* in it has ended, having yielded a file
C15_Witness ==
    /\ Batch /\ opts.max_depth = 0
    /\ pc = "buffer" /\ jobs # <<>>
    /\ \E d \in fs0.dirs : parent(d) = In /\ \E p \in fs0.files : parent(p) = d

\* C16: a step in which a call made for a job fails sends that job to
\* Failed without any effect on the file system, a failed render or convert
\* leaving none of that job's calls to the file system made, and makes run
\* return the error of that job.
C16_FailureEndsJob ==
    [][(pc = "collect" /\ faults' = faults + 1) =>
          \E i \in in_progress :
              /\ stage[i] # "Failed" /\ stage'[i] = "Failed"
              /\ calls'[i] = calls[i]
              /\ fs' = fs
              /\ pc' = "returned" /\ result' = JobErr(i)
      ]_vars

\* C17: each file the walker yields becomes the last job of the list, the
\* jobs before it staying as they were, and it lies below every directory
\* whose cursor is on the stack: while the cursor of a subdirectory is
\* there, no entry of a directory above it is read, so what the subtree
\* yields comes before any later entry of its parent.
C17_DepthFirstOrder ==
    [][(pc = "walk" /\ jobs' # jobs) =>
          /\ Len(jobs') = Len(jobs) + 1
          /\ SubSeq(jobs', 1, Len(jobs)) = jobs
          /\ parent(jobs'[Len(jobs')].input_file) = path_stack[Len(path_stack)].dir
          /\ \A k \in 1..Len(path_stack) :
                IsPrefix(path_stack[k].dir, jobs'[Len(jobs')].input_file)
      ]_vars

\* a file of the root was yielded after a file of a subdirectory, itself
\* yielded after a file of the root
C17_Witness ==
    /\ Batch /\ Len(jobs) >= 3
    /\ \E i, j, k \in JobIds :
          /\ i < j /\ j < k
          /\ parent(jobs[i].input_file) = In
          /\ parent(jobs[j].input_file) # In
          /\ parent(jobs[k].input_file) = In

\* C18: a walk that has started comes to its end, the stack of cursors
\* empty (unless an unwrap ends the process first); the call of next that
\* finds the stack empty yields nothing and leaves it empty, and from then
\* on the stack stays empty and the job list as it is.
C18_WalkEnds ==
    /\ (pc = "walk") ~> ((pc = "buffer" /\ path_stack = <<>>) \/ exit.ended)
    /\ [][(pc = "walk" /\ path_stack = <<>>)
             => (pc' = "buffer" /\ path_stack' = <<>> /\ jobs' = jobs)]_vars
    /\ [][(Batch /\ pc \in {"buffer", "collect", "returned", "exited"})
             => (path_stack' = path_stack /\ jobs' = jobs)]_vars

\* a walk through more than one directory has ended with files yielded
C18_Witness ==
    /\ Batch /\ pc = "buffer"
    /\ path_stack = <<>>
    /\ Cardinality(opened) >= 2
    /\ Len(jobs) >= 2

\* C19: no two jobs of the list have the same input file: a file yielded
\* now was not yielded before, and a directory opened now was not opened
\* before.
C19_NothingTwice ==
    [][(pc = "walk") =>
          /\ \A i, j \in 1..Len(jobs') :
                i # j => jobs'[i].input_file # jobs'[j].input_file
          /\ Len(path_stack') > Len(path_stack)
                => /\ path_stack'[Len(path_stack')].dir \notin opened
                   /\ opened' = opened \cup {path_stack'[Len(path_stack')].dir}
      ]_vars

\* the walk ended after opening a subdirectory, having yielded from every
\* directory it opened and twice from one of them
C19_Witness ==
    /\ Batch /\ pc = "buffer"
    /\ Cardinality(opened) >= 2
    /\ \A d \in opened : \E i \in JobIds : parent(jobs[i].input_file) = d
    /\ \E i, j \in JobIds : i # j /\ parent(jobs[i].input_file) = parent(jobs[j].input_file)

\* C20 as claimed: in a batch run a job is Skipped only when another job of
\* the run with the same output file has written it, so with pairwise
\* distinct output files no job is Skipped.
C20_SkippedOnlyAfterWrite ==
    Batch => \A i \in JobIds :
        stage[i] = "Skipped" =>
            \E j \in JobIds \ {i} : /\ jobs[j].output_file = jobs[i].output_file
                                    /\ stage[j] = "Succeeded"

\* C20: in a batch run a job is Skipped only when another job of the run
\* has made its output path: by writing its own output file there, or by
\* creating it as one of the directories above its own output file.
C20_SkippedOnlyAfterJob ==
    Batch => \A i \in JobIds :
        stage[i] = "Skipped" =>
            /\ Exists(fs, jobs[i].output_file) /\ ~Exists(fs0, jobs[i].output_file)
            /\ \E j \in JobIds \ {i} :
                  \/ /\ jobs[j].output_file = jobs[i].output_file
                     /\ stage[j] = "Succeeded"
                  \/ /\ IsPrefix(jobs[i].output_file, parent(jobs[j].output_file))
                     /\ calls[j].convert = 1
                     /\ Resolve(parent(jobs[j].output_file)) \in fs.dirs
                     /\ stage[j] \in {"PersistingWrite", "Succeeded", "Failed"}

\* a job was skipped over a directory that another job, with a different
\* output file, had made for its own output
C20_Witness ==
    /\ Batch /\ opts.skip_existing
    /\ \E i \in JobIds : /\ stage[i] = "Skipped"
                         /\ Resolve(jobs[i].output_file) \in fs.dirs
                         /\ \A j \in JobIds \ {i} :
                               jobs[j].output_file # jobs[i].output_file

====
